---- MODULE Spec2Model ----
(***************************************************************************)
(* Photo Coloring Converter: the batch controller (ApplicationController), *)
(* the image processing engine (ImageProcessingEngine) and its pixel       *)
(* filters.                                                                *)
(*                                                                         *)
(* Spec     the controller and the engine's asynchronous batch run; a      *)
(*          buffer is followed by its provenance (the chain of stages that *)
(*          produced it).                                                  *)
(* SpecPix  the pixel filters and the vector extractor on concrete RGBA    *)
(*          buffers.                                                       *)
(* SpecVec  the point-sequence operations of SVGVectorGenerator.           *)
(* SpecFair Spec with the fairness of timers and of load events.           *)
(* SpecTrace   the region tracer, on small buffers and on a large region.  *)
(* SpecCalls   the pipeline stages as calls that allocate and write pixel  *)
(*             arrays.                                                     *)
(* SpecCanvas  the canvas size chosen by setupCanvas.                      *)
(***************************************************************************)
EXTENDS Integers, Sequences, FiniteSets, TLC

VARIABLES
    selectedFiles,      \* window.AppState.selectedFiles
    processedImages,    \* window.AppState.processedImages
    isProcessing,       \* window.AppState.isProcessing
    cancelled,          \* window.AppState.cancelled
    currentSettings,    \* window.AppState.currentSettings
    currentStage,       \* ApplicationController.currentStage
    runs,               \* the processImages invocations, by start order
    nRuns,              \* number of processImages invocations so far
    nTimers,            \* pending setTimeout(..., 1000) of cancelProcessing
    nEvents,            \* number of user events (selections, clicks, keys) so far
    pixIn,              \* SpecPix: the buffer handed to the filter
    pixOut,             \* SpecPix: the buffer the filter returned
    pixOp,              \* SpecPix: the filter that produced pixOut
    vecIn,              \* SpecVec: the point sequence handed to the operation
    vecOut,             \* SpecVec: what the operation returned
    vecOp,              \* SpecVec: the operation that produced vecOut
    image,              \* SpecCanvas: the size of the decoded image
    canvas,             \* SpecCanvas: the size of the engine's canvas
    canvasOp            \* SpecCanvas: what was last done to the canvas

ctlVars == <<selectedFiles, processedImages, isProcessing, cancelled,
             currentSettings, currentStage, runs, nRuns,
             nTimers, nEvents>>
pixVars == <<pixIn, pixOut, pixOp>>
vecVars == <<vecIn, vecOut, vecOp>>
canvasVars == <<image, canvas, canvasOp>>
vars == <<ctlVars, pixVars, vecVars, canvasVars>>

(***************************************************************************)
(* Bounds                                                                  *)
(***************************************************************************)
MaxFiles == 2      \* files in one selection
MaxEvents == 5     \* user events in one behaviour
MaxRuns == MaxEvents - 1

(***************************************************************************)
(* Files and settings                                                      *)
(***************************************************************************)
\* A selection of n files; what a file turns out to be (readable, decodable,
\* of positive size) is decided when the browser reads and decodes it.
FileList(n) == [k \in 1..n |-> k]
FileLists == {FileList(n) : n \in 1..MaxFiles}

ComplexityLevels == {"simple", "moderate", "complex"}
LineWeights == {"thin", "medium", "thick"}
SettingIds == {"complexityLevel", "lineWeight"}
SettingValues(id) == IF id = "complexityLevel" THEN ComplexityLevels ELSE LineWeights

\* currentSettings starts as {}: neither key is present.
NoSettings == [complexityLevel |-> "unset", lineWeight |-> "unset"]

\* processingSettings.lineWeight, the engine default
DefaultLineWeight == 2

\* applyMorphologicalOperations: rounds of opening for a settings object
MorphIterationsOnce(settings) ==
    IF settings.complexityLevel = "complex" THEN 0 ELSE 1
MorphIterations(settings) ==
    CASE settings.complexityLevel = "simple" -> 2
      [] settings.complexityLevel = "moderate" -> 1
      [] settings.complexityLevel = "complex" -> 0
      [] OTHER -> 1

\* adjustLineWeight: the numeric line weight for a settings object
LineWeightValue(settings) ==
    CASE settings.lineWeight = "thin" -> 1
      [] settings.lineWeight = "medium" -> 2
      [] settings.lineWeight = "thick" -> 3
      [] OTHER -> DefaultLineWeight

\* adjustLineWeight: number of dilation passes
LineWeightPassesInclusive(settings) ==
    IF LineWeightValue(settings) <= 1 THEN 0 ELSE LineWeightValue(settings)
LineWeightPasses(settings) ==
    IF LineWeightValue(settings) <= 1 THEN 0 ELSE LineWeightValue(settings) - 1

(***************************************************************************)
(* The pipeline of applyProcessingPipeline, on buffer provenance           *)
(***************************************************************************)
StageOrder == <<"grayscale", "contrast", "blur", "edges", "morphology",
                "lineWeight", "binarize">>
NumStages == Len(StageOrder)

\* The buffer a stage returns, identified by the stages that produced it.
\* Stages 5 and 6 read window.AppState.currentSettings when they run.
ApplyStage(k, input, settings) ==
    Append(input, [name |-> StageOrder[k],
                   n |-> CASE k = 5 -> MorphIterations(settings)
                           [] k = 6 -> LineWeightPasses(settings)
                           [] OTHER -> 0])

\* The buffer stage k is called with: currentData (originalImageData for k = 1,
\* whose provenance is the empty chain).
StageInputOriginal(img) == <<>>
StageInput(img) == img.currentData

IdleImage == [pc |-> "idle", dims |-> "unknown", st |-> 0, currentData |-> <<>>,
              error |-> "none"]
IdleRun == [pc |-> "idle", files |-> <<>>, i |-> 0, results |-> <<>>,
            imgs |-> <<>>, startSettings |-> NoSettings, error |-> "none"]

RunIds == 1..MaxRuns

\* Position of processImages after it has called processSingleImage:
\* `await` suspends the loop until the image settles.
AfterCallNoAwait == "imageDelay"
AfterCall == "awaitImage"

(***************************************************************************)
(* Init: the state after the engine and the controller are constructed     *)
(* (resetUIState has run, no saved settings).                              *)
(***************************************************************************)
PixIdle ==
    /\ pixIn = <<>>
    /\ pixOut = <<>>
    /\ pixOp = <<>>

VecIdle ==
    /\ vecIn = <<>>
    /\ vecOut = <<>>
    /\ vecOp = <<>>

CanvasIdle ==
    /\ image = <<>>
    /\ canvas = <<>>
    /\ canvasOp = "none"

Init ==
    /\ selectedFiles = <<>>
    /\ processedImages = <<>>
    /\ isProcessing = FALSE
    /\ cancelled = FALSE
    /\ currentSettings = NoSettings
    /\ currentStage = "ready"
    /\ runs = [r \in RunIds |-> IdleRun]
    /\ nRuns = 0
    /\ nTimers = 0
    /\ nEvents = 0
    /\ PixIdle
    /\ VecIdle
    /\ CanvasIdle

(***************************************************************************)
(* Controller operations                                                   *)
(***************************************************************************)
\* The upload module (not part of the controller) fills selectedFiles.
SelectFiles ==
    /\ nEvents < MaxEvents
    /\ nEvents' = nEvents + 1
    /\ \E fl \in FileLists : selectedFiles' = fl
    /\ UNCHANGED <<processedImages, isProcessing, cancelled, currentSettings,
                   currentStage, runs, nRuns, nTimers,
                   pixVars, vecVars,
                   canvasVars>>

handleSettingChange ==
    /\ nEvents < MaxEvents
    /\ \E id \in SettingIds : \E v \in SettingValues(id) :
          currentSettings' = [currentSettings EXCEPT ![id] = v]
    /\ nEvents' = nEvents + 1
    /\ UNCHANGED <<selectedFiles, processedImages, isProcessing, cancelled,
                   currentStage, runs, nRuns, nTimers,
                   pixVars, vecVars,
                   canvasVars>>

\* The images of a new processImages call: the loop body runs for i = 0 up
\* to reader.readAsDataURL(file) of processSingleImage.
StartedImages(files) ==
    [k \in 1..Len(files) |->
        IF k = 1 THEN [IdleImage EXCEPT !.pc = "reading"] ELSE IdleImage]

startImageProcessing ==
    /\ ~isProcessing
    /\ Len(selectedFiles) > 0
    /\ nEvents < MaxEvents
    /\ nEvents' = nEvents + 1
    /\ isProcessing' = TRUE
    /\ currentStage' = "processing"
    /\ nRuns' = nRuns + 1
    /\ runs' = [runs EXCEPT ![nRuns + 1] =
                    [pc |-> AfterCall, files |-> selectedFiles, i |-> 1,
                     results |-> <<>>, imgs |-> StartedImages(selectedFiles),
                     startSettings |-> currentSettings, error |-> "none"]]
    /\ UNCHANGED <<selectedFiles, processedImages, cancelled, currentSettings,
                   nTimers, pixVars, vecVars,
                   canvasVars>>

cancelProcessing ==
    /\ isProcessing
    /\ nEvents < MaxEvents
    /\ nEvents' = nEvents + 1
    /\ cancelled' = TRUE
    /\ nTimers' = nTimers + 1
    /\ UNCHANGED <<selectedFiles, processedImages, isProcessing,
                   currentSettings, currentStage, runs,
                   nRuns, pixVars, vecVars,
                   canvasVars>>

\* The setTimeout callback of cancelProcessing, resetUIState included.
cancelTimeout ==
    /\ nTimers > 0
    /\ nTimers' = nTimers - 1
    /\ isProcessing' = FALSE
    /\ cancelled' = FALSE
    /\ currentStage' = "ready"
    /\ selectedFiles' = <<>>
    /\ processedImages' = <<>>
    /\ UNCHANGED <<currentSettings, runs, nRuns, nEvents,
                   pixVars, vecVars,
                   canvasVars>>

resetApplication ==
    /\ nEvents < MaxEvents
    /\ nEvents' = nEvents + 1
    /\ selectedFiles' = <<>>
    /\ processedImages' = <<>>
    /\ isProcessing' = FALSE
    /\ cancelled' = FALSE
    /\ currentStage' = "ready"
    /\ UNCHANGED <<currentSettings, runs, nRuns, nTimers,
                   pixVars, vecVars,
                   canvasVars>>

(***************************************************************************)
(* Engine: processImages, processSingleImage, applyProcessingPipeline      *)
(***************************************************************************)
Images(r) == 1..Len(runs[r].imgs)
Awaited(r, k) == runs[r].pc = "awaitImage" /\ runs[r].i = k

\* The promise of processSingleImage(file, k) rejects with err.  The awaiting
\* processImages catches, calls its handleProcessingError and rethrows into
\* startImageProcessing, whose catch runs the controller's
\* handleProcessingError (resetUIState included).
RejectUnreported(r, k, dims, err) ==
    /\ runs' = [runs EXCEPT ![r].imgs[k].pc = "rejected",
                            ![r].imgs[k].dims = dims,
                            ![r].imgs[k].error = err]
    /\ UNCHANGED <<isProcessing, currentStage, selectedFiles, processedImages>>
Reject(r, k, dims, err) ==
    /\ runs' = [runs EXCEPT ![r].imgs[k].pc = "rejected",
                            ![r].imgs[k].dims = dims,
                            ![r].imgs[k].error = err,
                            ![r].pc = IF Awaited(r, k) THEN "failed" ELSE @,
                            ![r].error = IF Awaited(r, k) THEN err ELSE @]
    /\ IF Awaited(r, k)
       THEN /\ isProcessing' = FALSE
            /\ currentStage' = "error"
            /\ selectedFiles' = <<>>
            /\ processedImages' = <<>>
       ELSE UNCHANGED <<isProcessing, currentStage, selectedFiles,
                        processedImages>>

\* reader.onload: img.src is set and the browser starts decoding.
readerOnload(r, k) ==
    /\ runs[r].imgs[k].pc = "reading"
    /\ runs' = [runs EXCEPT ![r].imgs[k].pc = "decoding"]
    /\ UNCHANGED <<selectedFiles, processedImages, isProcessing, cancelled,
                   currentSettings, currentStage, nRuns,
                   nTimers, nEvents, pixVars, vecVars,
                   canvasVars>>

readerOnerror(r, k) ==
    /\ runs[r].imgs[k].pc = "reading"
    /\ Reject(r, k, "unknown", "ReadError")
    /\ UNCHANGED <<cancelled, currentSettings, nRuns,
                   nTimers, nEvents, pixVars, vecVars,
                   canvasVars>>

imgOnerror(r, k) ==
    /\ runs[r].imgs[k].pc = "decoding"
    /\ Reject(r, k, "unknown", "LoadError")
    /\ UNCHANGED <<cancelled, currentSettings, nRuns,
                   nTimers, nEvents, pixVars, vecVars,
                   canvasVars>>

\* img.onload for an image of positive size: setupCanvas, drawImage,
\* getImageData, then applyProcessingPipeline up to its first await (stage 1).
imgOnload(r, k) ==
    /\ runs[r].imgs[k].pc = "decoding"
    /\ runs' = [runs EXCEPT ![r].imgs[k] =
                    [pc |-> "stageDelay", dims |-> "positive", st |-> 1,
                     currentData |-> ApplyStage(1, <<>>, currentSettings),
                     error |-> "none"]]
    /\ UNCHANGED <<selectedFiles, processedImages, isProcessing, cancelled,
                   currentSettings, currentStage, nRuns, nTimers, nEvents,
                   pixVars, vecVars,
                   canvasVars>>

\* img.onload for an image with a zero dimension: the canvas is 0 wide or
\* high and context.getImageData throws IndexSizeError inside the try block,
\* so the promise rejects before applyProcessingPipeline is called.
imgOnloadZero(r, k) ==
    /\ runs[r].imgs[k].pc = "decoding"
    /\ Reject(r, k, "zero", "IndexSizeError")
    /\ UNCHANGED <<cancelled, currentSettings, nRuns,
                   nTimers, nEvents, pixVars, vecVars,
                   canvasVars>>

\* The promise of processSingleImage resolves: processImages pushes the
\* result and waits delay(100).
Resolved(r, k, img) ==
    [runs EXCEPT ![r].imgs[k] = img,
                 ![r].results = IF Awaited(r, k)
                                THEN Append(@, [index |-> k,
                                                processed |-> img.currentData])
                                ELSE @,
                 ![r].pc = IF Awaited(r, k) THEN "imageDelay" ELSE @]

\* delay(50) of applyProcessingPipeline elapses: the next stage runs; after
\* stage 7 the pipeline returns and the image promise resolves.
pipelineStage(r, k) ==
    /\ runs[r].imgs[k].pc = "stageDelay"
    /\ LET img == runs[r].imgs[k]
           st == img.st + 1
           out == ApplyStage(st, StageInput(img), currentSettings)
       IN  runs' = IF st < NumStages
                   THEN [runs EXCEPT ![r].imgs[k] =
                            [img EXCEPT !.st = st, !.currentData = out]]
                   ELSE Resolved(r, k, [img EXCEPT !.pc = "resolved", !.st = st,
                                                   !.currentData = out])
    /\ UNCHANGED <<selectedFiles, processedImages, isProcessing, cancelled,
                   currentSettings, currentStage, nRuns,
                   nTimers, nEvents, pixVars, vecVars,
                   canvasVars>>

\* delay(100) of processImages elapses and the loop goes on: either the next
\* processSingleImage is called, or the loop ends, the results are published
\* and startImageProcessing runs handleProcessingComplete.
nextImage(r) ==
    /\ runs[r].pc = "imageDelay"
    /\ LET i == runs[r].i + 1
       IN  IF i <= Len(runs[r].files)
           THEN /\ runs' = [runs EXCEPT ![r].i = i,
                                        ![r].pc = AfterCall,
                                        ![r].imgs[i].pc = "reading"]
                /\ UNCHANGED <<processedImages, isProcessing, currentStage>>
           ELSE /\ runs' = [runs EXCEPT ![r].i = i, ![r].pc = "done"]
                /\ processedImages' = runs[r].results
                /\ isProcessing' = FALSE
                /\ currentStage' = "complete"
    /\ UNCHANGED <<selectedFiles, cancelled, currentSettings,
                   nRuns, nTimers, nEvents, pixVars, vecVars,
                   canvasVars>>

Next ==
    \/ SelectFiles
    \/ handleSettingChange
    \/ startImageProcessing
    \/ cancelProcessing
    \/ cancelTimeout
    \/ resetApplication
    \/ \E r \in RunIds : \E k \in Images(r) : readerOnload(r, k)
    \/ \E r \in RunIds : \E k \in Images(r) : readerOnerror(r, k)
    \/ \E r \in RunIds : \E k \in Images(r) : imgOnerror(r, k)
    \/ \E r \in RunIds : \E k \in Images(r) : imgOnload(r, k)
    \/ \E r \in RunIds : \E k \in Images(r) : imgOnloadZero(r, k)
    \/ \E r \in RunIds : \E k \in Images(r) : pipelineStage(r, k)
    \/ \E r \in RunIds : nextImage(r)

Spec == Init /\ [][Next]_vars

\* Spec with the scheduling the browser guarantees: an armed timer fires
\* (delay(50), delay(100)), and a file read or an image decode that has been
\* started reports, by its load or by its error event.
Fairness ==
    /\ \A r \in RunIds : WF_vars(nextImage(r))
    /\ \A r \in RunIds : \A k \in 1..MaxFiles :
          /\ WF_vars(k \in Images(r) /\ pipelineStage(r, k))
          /\ WF_vars(k \in Images(r) /\ (readerOnload(r, k) \/ readerOnerror(r, k)))
          /\ WF_vars(k \in Images(r) /\ (\/ imgOnload(r, k)
                                         \/ imgOnerror(r, k)
                                         \/ imgOnloadZero(r, k)))

SpecFair == Spec /\ Fairness

(***************************************************************************)
(* Properties of the batch run                                             *)
(***************************************************************************)
InFlight(r) == runs[r].pc \in {"awaitImage", "imageDelay"}
ImageInFlight(r, k) == runs[r].imgs[k].pc \in {"reading", "decoding", "stageDelay"}
StageNames(chain) == [j \in 1..Len(chain) |-> chain[j].name]

\* C1: a failing image does not abort the batch: processImages never throws,
\* and when it returns every image of the batch has been settled and the
\* results are those of the images that succeeded.
C1_BatchSurvivesImageFailure ==
    \A r \in RunIds :
        /\ runs[r].pc # "failed"
        /\ runs[r].pc = "done" =>
              /\ \A k \in Images(r) : runs[r].imgs[k].pc \in {"resolved", "rejected"}
              /\ {runs[r].results[j].index : j \in 1..Len(runs[r].results)}
                   = {k \in Images(r) : runs[r].imgs[k].pc = "resolved"}

\* C2: once AppState.cancelled is set, a run that resumes from a yield point
\* (the delay between two stages or between two images) starts no further
\* stage, starts no further image and does not publish results.
C2_CancelStopsAtYield ==
    [][\A r \in RunIds :
          (cancelled /\ InFlight(r)) =>
              /\ \A k \in Images(r) :
                    runs[r].imgs[k].st > 0 => runs'[r].imgs[k].st = runs[r].imgs[k].st
              /\ runs[r].pc = "imageDelay" => runs'[r].pc = "imageDelay"]_vars

\* C3: every morphology and line-weight stage of a run works with the
\* settings that were in force when the run started.
C3_RunUsesStartSettings ==
    \A r \in RunIds : \A k \in Images(r) :
        \A j \in 1..Len(runs[r].imgs[k].currentData) :
            LET e == runs[r].imgs[k].currentData[j]
            IN  /\ e.name = "morphology" => e.n = MorphIterations(runs[r].startSettings)
                /\ e.name = "lineWeight" => e.n = LineWeightPasses(runs[r].startSettings)

\* C4: within one batch at most one image is in flight, and image k+1 is not
\* started before image k has completed its last stage.
C4_OneImageInFlight ==
    \A r \in RunIds :
        /\ Cardinality({k \in Images(r) : ImageInFlight(r, k)}) <= 1
        /\ \A k \in Images(r) :
              (k > 1 /\ runs[r].imgs[k].pc # "idle") =>
                  /\ runs[r].imgs[k - 1].pc = "resolved"
                  /\ runs[r].imgs[k - 1].st = NumStages

C4_Witness ==
    \E r \in RunIds :
        /\ Len(runs[r].imgs) >= 2
        /\ runs[r].imgs[2].pc = "stageDelay"
        /\ runs[r].imgs[2].st = 3

\* C5: the buffer of every image is the result of the first st stages of the
\* fixed order, each applied once to the output of the one before; a resolved
\* image has been through all seven; and no step runs more than one stage
\* (there is a yield between consecutive stages).
C5_StagesInOrder ==
    /\ [](\A r \in RunIds : \A k \in Images(r) :
            LET img == runs[r].imgs[k]
            IN  /\ StageNames(img.currentData) = SubSeq(StageOrder, 1, img.st)
                /\ img.pc = "resolved" => img.st = NumStages
                /\ img.pc = "stageDelay" => img.st \in 1..(NumStages - 1)
                /\ img.pc \in {"idle", "reading", "decoding", "rejected"} => img.st = 0)
    /\ [][\A r \in RunIds : \A k \in Images(r) :
            runs'[r].imgs[k].st \in {runs[r].imgs[k].st, runs[r].imgs[k].st + 1}]_vars

C5_Witness ==
    \E r \in RunIds : \E k \in Images(r) :
        /\ runs[r].imgs[k].pc = "resolved"
        /\ Len(runs[r].imgs[k].currentData) = NumStages

\* C6: an image with a zero dimension fails with InvalidInputError before any
\* stage has run.
C6_ZeroSizeIsInvalidInput ==
    \A r \in RunIds : \A k \in Images(r) :
        runs[r].imgs[k].dims = "zero" =>
            /\ runs[r].imgs[k].pc = "rejected"
            /\ runs[r].imgs[k].st = 0
            /\ runs[r].imgs[k].error = "InvalidInputError"

(***************************************************************************)
(* Pixel buffers (ImageData): width, height and one <<R, G, B, A>> tuple   *)
(* per pixel in row-major order.                                           *)
(***************************************************************************)
\* Evaluates a sequence given by a function expression once and for all.
Force(s) == SubSeq(s, 1, Len(s))

XOf(i, w) == (i - 1) % w
YOf(i, w) == (i - 1) \div w
Red(b, x, y) == b.data[y * b.width + x + 1][1]

Min2(a, b) == IF a < b THEN a ELSE b
Max2(a, b) == IF a > b THEN a ELSE b

\* new ImageData(width, height): every channel of every pixel is 0.
NewImageData(w, h) ==
    [width |-> w, height |-> h, data |-> [i \in 1..(w * h) |-> <<0, 0, 0, 0>>]]

\* processingSettings of initializeProcessor
edgeThreshold == 50
morphologyRadius == 2
contrastBoostTenths == 12
brightnessAdjust == 0

convertToGrayscaleRedOnly(b) ==
    [b EXCEPT !.data = Force([i \in 1..Len(b.data) |->
        LET p == b.data[i]
            gray == (299 * p[1] + 587 * p[2] + 114 * p[3] + 500) \div 1000
        IN  <<gray, p[2], p[3], p[4]>>])]

\* Math.round of the weighted sum, in thousandths
convertToGrayscale(b) ==
    [b EXCEPT !.data = Force([i \in 1..Len(b.data) |->
        LET p == b.data[i]
            gray == (299 * p[1] + 587 * p[2] + 114 * p[3] + 500) \div 1000
        IN  <<gray, gray, gray, p[4]>>])]

\* ((value - 128) * contrast) + 128 + brightness, clamped to 0..255 and
\* rounded by the Uint8ClampedArray store; computed in tenths.
AdjustChannel(v) ==
    LET tenths == (v - 128) * contrastBoostTenths + 1280 + 10 * brightnessAdjust
        clamped == Max2(0, Min2(2550, tenths))
    IN  (clamped + 5) \div 10

adjustContrastBrightness(b) ==
    [b EXCEPT !.data = Force([i \in 1..Len(b.data) |->
        LET p == b.data[i]
        IN  <<AdjustChannel(p[1]), AdjustChannel(p[2]), AdjustChannel(p[3]), p[4]>>])]

\* The smoothing of the canvas blur filter is the browser's; it is taken
\* here as the mean over the (2k+1) x (2k+1) window clipped to the buffer,
\* k = 0 standing for a browser without canvas filters (no smoothing).
WindowSum(b, x, y, k, c) ==
    LET xs == Max2(0, x - k)..Min2(b.width - 1, x + k)
        ys == Max2(0, y - k)..Min2(b.height - 1, y + k)
        RECURSIVE SumRow(_, _)
        SumRow(yy, xx) ==
            IF xx > Min2(b.width - 1, x + k) THEN 0
            ELSE b.data[yy * b.width + xx + 1][c] + SumRow(yy, xx + 1)
        RECURSIVE SumRows(_)
        SumRows(yy) ==
            IF yy > Min2(b.height - 1, y + k) THEN 0
            ELSE SumRow(yy, Max2(0, x - k)) + SumRows(yy + 1)
    IN  (2 * SumRows(Max2(0, y - k)) + Cardinality(xs) * Cardinality(ys))
            \div (2 * Cardinality(xs) * Cardinality(ys))

applyGaussianBlur(b, k) ==
    [b EXCEPT !.data = Force([i \in 1..Len(b.data) |->
        LET x == XOf(i, b.width)
            y == YOf(i, b.width)
        IN  <<WindowSum(b, x, y, k, 1), WindowSum(b, x, y, k, 2),
              WindowSum(b, x, y, k, 3), b.data[i][4]>>])]

BlurKernels == {0, 2}

\* Sobel kernels, indexed by (ky + 1) * 3 + (kx + 1) + 1
sobelX == <<-1, 0, 1, -2, 0, 2, -1, 0, 1>>
sobelY == <<-1, -2, -1, 0, 0, 0, 1, 2, 1>>

Gradient(b, x, y, kernel) ==
    LET RECURSIVE Acc(_)
        Acc(j) ==
            IF j > 9 THEN 0
            ELSE Red(b, x + ((j - 1) % 3) - 1, y + ((j - 1) \div 3) - 1) * kernel[j]
                 + Acc(j + 1)
    IN  Acc(1)

\* magnitude > edgeThreshold, compared on the squares
EdgeValue(b, x, y) ==
    LET gx == Gradient(b, x, y, sobelX)
        gy == Gradient(b, x, y, sobelY)
    IN  IF gx * gx + gy * gy > edgeThreshold * edgeThreshold THEN 0 ELSE 255

\* The pixels the loops of detectEdges write; the others keep the zeroes of
\* new ImageData.
EdgeInterior(b, x, y) ==
    /\ x >= 1 /\ x < b.width - 1
    /\ y >= 1 /\ y < b.height - 1

detectEdges(b) ==
    [width |-> b.width, height |-> b.height,
     data |-> Force([i \in 1..(b.width * b.height) |->
        LET x == XOf(i, b.width)
            y == YOf(i, b.width)
        IN  IF EdgeInterior(b, x, y)
            THEN LET e == EdgeValue(b, x, y) IN <<e, e, e, 255>>
            ELSE NewImageData(b.width, b.height).data[i]])]

\* The pixels the loops of morphologicalErosion and morphologicalDilation
\* write; the others keep the zeroes of new ImageData.
MorphInterior(b, x, y) ==
    /\ x >= morphologyRadius /\ x < b.width - morphologyRadius
    /\ y >= morphologyRadius /\ y < b.height - morphologyRadius

\* The red channel at window position j (row-major, 0-based) around (x, y).
WindowRed(b, x, y, j) ==
    Red(b, x + (j % (2 * morphologyRadius + 1)) - morphologyRadius,
           y + (j \div (2 * morphologyRadius + 1)) - morphologyRadius)

WindowSize == (2 * morphologyRadius + 1) * (2 * morphologyRadius + 1)

\* minValue of morphologicalErosion: Math.min over the window, from 255
RECURSIVE WindowMin(_, _, _, _)
WindowMin(b, x, y, j) ==
    IF j >= WindowSize THEN 255
    ELSE Min2(WindowRed(b, x, y, j), WindowMin(b, x, y, j + 1))

\* maxValue of morphologicalDilation: Math.max over the window, from 0
RECURSIVE WindowMax(_, _, _, _)
WindowMax(b, x, y, j) ==
    IF j >= WindowSize THEN 0
    ELSE Max2(WindowRed(b, x, y, j), WindowMax(b, x, y, j + 1))

morphologicalErosion(b) ==
    [width |-> b.width, height |-> b.height,
     data |-> Force([i \in 1..(b.width * b.height) |->
        LET x == XOf(i, b.width)
            y == YOf(i, b.width)
        IN  IF MorphInterior(b, x, y)
            THEN LET m == WindowMin(b, x, y, 0) IN <<m, m, m, 255>>
            ELSE NewImageData(b.width, b.height).data[i]])]

morphologicalDilation(b) ==
    [width |-> b.width, height |-> b.height,
     data |-> Force([i \in 1..(b.width * b.height) |->
        LET x == XOf(i, b.width)
            y == YOf(i, b.width)
        IN  IF MorphInterior(b, x, y)
            THEN LET m == WindowMax(b, x, y, 0) IN <<m, m, m, 255>>
            ELSE NewImageData(b.width, b.height).data[i]])]

\* One pass of the loop of applyMorphologicalOperations.
OpeningRound(b) == morphologicalDilation(morphologicalErosion(b))

RECURSIVE OpeningRounds(_, _)
OpeningRounds(b, n) == IF n <= 0 THEN b ELSE OpeningRounds(OpeningRound(b), n - 1)

applyMorphologicalOperations(b, settings) ==
    OpeningRounds(b, MorphIterations(settings))

RECURSIVE DilationPasses(_, _)
DilationPasses(b, n) ==
    IF n <= 0 THEN b ELSE DilationPasses(morphologicalDilation(b), n - 1)

adjustLineWeight(b, settings) ==
    IF LineWeightValue(settings) <= 1 THEN b
    ELSE DilationPasses(b, LineWeightValue(settings) - 1)

finalCleanupRedOnly(b) ==
    [b EXCEPT !.data = Force([i \in 1..Len(b.data) |->
        LET value == IF b.data[i][1] > 127 THEN 255 ELSE 0
        IN  <<value, b.data[i][2], b.data[i][3], 255>>])]

finalCleanup(b) ==
    [b EXCEPT !.data = Force([i \in 1..Len(b.data) |->
        LET value == IF b.data[i][1] > 127 THEN 255 ELSE 0
        IN  <<value, value, value, 255>>])]

\* applyProcessingPipeline on a concrete buffer; k is the browser's blur.
applyProcessingPipeline(b, settings, k) ==
    finalCleanup(
      adjustLineWeight(
        applyMorphologicalOperations(
          detectEdges(
            applyGaussianBlur(
              adjustContrastBrightness(convertToGrayscale(b)), k)),
          settings),
        settings))

(***************************************************************************)
(* SVGVectorGenerator: the ink map and the region tracer                   *)
(***************************************************************************)
\* optimizationSettings
minPathLength == 10
maxPoints == 1000

\* binaryMap[y][x], flattened row-major
createBinaryMapInverted(b) ==
    Force([i \in 1..(b.width * b.height) |-> IF b.data[i][1] < 128 THEN 0 ELSE 1])
createBinaryMap(b) ==
    Force([i \in 1..(b.width * b.height) |-> IF b.data[i][1] < 128 THEN 1 ELSE 0])

directions == << <<-1, -1>>, <<-1, 0>>, <<-1, 1>>, <<0, -1>>, <<0, 1>>,
                 <<1, -1>>, <<1, 0>>, <<1, 1>> >>

InMap(x, y, w, h) == x >= 0 /\ x < w /\ y >= 0 /\ y < h

\* The neighbours traceContour pushes for (x, y), in push order.
RECURSIVE Pushes(_, _, _, _, _, _, _)
Pushes(binaryMap, visited, x, y, w, h, d) ==
    IF d > Len(directions) THEN <<>>
    ELSE LET nx == x + directions[d][1]
             ny == y + directions[d][2]
             rest == Pushes(binaryMap, visited, x, y, w, h, d + 1)
         IN  IF InMap(nx, ny, w, h) /\ (ny * w + nx + 1) \notin visited
                /\ binaryMap[ny * w + nx + 1] = 1
             THEN <<(<<nx, ny>>)>> \o rest
             ELSE rest

\* contour.length < maxPoints fails: the point cap of traceContour
CapNever(contour) == FALSE
CapReached(contour) == Len(contour) >= maxPoints

\* The while loop of traceContour has ended in state s = [stack, contour,
\* visited]; visited is shared with findContours.
TraceDone(s) == Len(s.stack) = 0 \/ CapReached(s.contour)

\* One iteration of the while loop of traceContour.
TraceStep(binaryMap, w, h, s) ==
    LET top == s.stack[Len(s.stack)]
        x == top[1]
        y == top[2]
        popped == SubSeq(s.stack, 1, Len(s.stack) - 1)
    IN  IF ~InMap(x, y, w, h) \/ (y * w + x + 1) \in s.visited
           \/ binaryMap[y * w + x + 1] = 0
        THEN [s EXCEPT !.stack = popped]
        ELSE LET seen == s.visited \cup {y * w + x + 1}
             IN  [stack |-> popped \o Pushes(binaryMap, seen, x, y, w, h, 1),
                  contour |-> Append(s.contour, [x |-> x, y |-> y]),
                  visited |-> seen]

\* The while loop of traceContour from state s, for at most n iterations
\* (the iterations are split in halves to keep the evaluation shallow).
RECURSIVE TraceLoop(_, _, _, _, _)
TraceLoop(binaryMap, w, h, s, n) ==
    IF TraceDone(s) THEN s
    ELSE IF n <= 1 THEN TraceStep(binaryMap, w, h, s)
    ELSE LET half == TraceLoop(binaryMap, w, h, s, n \div 2)
         IN  IF TraceDone(half) THEN half
             ELSE TraceLoop(binaryMap, w, h, half, n - (n \div 2))

\* Every iteration pops one entry and every traced pixel pushes at most 8, so
\* the loop ends within 8 * w * h + 1 iterations.
traceContour(binaryMap, visited, startX, startY, w, h) ==
    LET s == TraceLoop(binaryMap, w, h,
                       [stack |-> <<(<<startX, startY>>)>>, contour |-> <<>>,
                        visited |-> visited],
                       8 * w * h + 1)
    IN  [contour |-> s.contour, visited |-> s.visited]

\* The scan of findContours from flat index `from` on: the next unvisited ink
\* pixel with 1 <= x < w - 1 and 1 <= y < h - 1 in row-major order seeds a
\* trace. Yields every traced contour, in trace order.
RECURSIVE ScanContours(_, _, _, _, _, _)
ScanContours(binaryMap, w, h, from, visited, contours) ==
    LET seeds == {i \in from..(w * h) :
                    /\ XOf(i, w) >= 1 /\ XOf(i, w) < w - 1
                    /\ YOf(i, w) >= 1 /\ YOf(i, w) < h - 1
                    /\ binaryMap[i] = 1
                    /\ i \notin visited}
    IN  IF seeds = {} THEN contours
        ELSE LET seed == CHOOSE i \in seeds : \A j \in seeds : i <= j
                 t == traceContour(binaryMap, visited, XOf(seed, w), YOf(seed, w), w, h)
             IN  ScanContours(binaryMap, w, h, seed + 1, t.visited,
                              Append(contours, t.contour))

\* contour.length >= minPathLength: the traced contours findContours keeps.
RECURSIVE KeepLong(_)
KeepLong(contours) ==
    IF contours = <<>> THEN <<>>
    ELSE IF Len(Head(contours)) >= minPathLength
         THEN <<Head(contours)>> \o KeepLong(Tail(contours))
         ELSE KeepLong(Tail(contours))

findContours(binaryMap, w, h) ==
    KeepLong(ScanContours(binaryMap, w, h, 1, {}, <<>>))

(***************************************************************************)
(* SVGVectorGenerator: smoothing, simplification and the curve builder.    *)
(* A point sequence is [unit |-> u, points |-> <<[x |-> X, y |-> Y], ...>>]: *)
(* the coordinates of a point are the exact quotients X / u and Y / u, so  *)
(* that the averages of smoothContour stay exact. Distances are compared   *)
(* through their squares, kept as fractions <<numerator, denominator>>.    *)
(***************************************************************************)
simplifyTolerance == 2

\* A contour as traceContour returns it: integer pixel coordinates.
Contour(points) == [unit |-> 1, points |-> points]

\* windowSize = Math.min(5, Math.floor(contour.length / 10))
windowSize(n) == Min2(5, n \div 10)

\* sumX and sumY of smoothContour for index i (0-based); count is
\* 2 * windowSize + 1.
RECURSIVE WindowSumX(_, _, _, _)
WindowSumX(points, i, j, ws) ==
    IF j > ws THEN 0
    ELSE points[((i + j + Len(points)) % Len(points)) + 1].x
         + WindowSumX(points, i, j + 1, ws)

RECURSIVE WindowSumY(_, _, _, _)
WindowSumY(points, i, j, ws) ==
    IF j > ws THEN 0
    ELSE points[((i + j + Len(points)) % Len(points)) + 1].y
         + WindowSumY(points, i, j + 1, ws)

\* The indices i of the loop of smoothContour (one pushed point each).
SmoothedIndicesShort(n) == 0..(n - 2)
SmoothedIndices(n) == 0..(n - 1)

\* if (contour.length < 5) return contour
SmoothMinLength == 5

smoothContour(c) ==
    IF Len(c.points) < SmoothMinLength THEN c
    ELSE LET n == Len(c.points)
             ws == windowSize(n)
         IN  [unit |-> c.unit * (2 * ws + 1),
              points |-> Force([k \in 1..Cardinality(SmoothedIndices(n)) |->
                            [x |-> WindowSumX(c.points, k - 1, 0 - ws, ws),
                             y |-> WindowSumY(c.points, k - 1, 0 - ws, ws)]])]

\* The square of the distance of perpendicularDistance, as a fraction.
perpendicularDistanceZero(point, lineStart, lineEnd) == <<0, 1>>
perpendicularDistance(point, lineStart, lineEnd) ==
    LET A == point.x - lineStart.x
        B == point.y - lineStart.y
        C == lineEnd.x - lineStart.x
        D == lineEnd.y - lineStart.y
        dot == A * C + B * D
        lenSq == C * C + D * D
    IN  IF lenSq = 0 THEN <<A * A + B * B, 1>>
        ELSE IF dot < 0 THEN <<A * A + B * B, 1>>                      \* param < 0
        ELSE IF dot > lenSq THEN <<(A - C) * (A - C) + (B - D) * (B - D), 1>>  \* param > 1
        ELSE <<(A * D - B * C) * (A * D - B * C), lenSq>>

\* distance > maxDistance on the squares
FracGreater(p, q) ==
    IF p[2] = q[2] THEN p[1] > q[1] ELSE p[1] * q[2] > q[1] * p[2]

\* A tolerance is a fraction <<numerator, denominator>> of a coordinate unit;
\* Infinity is <<1, 0>>.
Tolerance(t) == <<t, 1>>
Infinity == <<1, 0>>
Tolerances == {Tolerance(0), Tolerance(simplifyTolerance), Infinity}

\* maxDistance > tolerance on the squares, the distance being in 1/unit
ExceedsTolerance(dist, tolerance, unit) ==
    dist[1] * tolerance[2] * tolerance[2]
        > tolerance[1] * tolerance[1] * unit * unit * dist[2]

\* The loop of douglasPeucker over i = 1 .. end - 1 (0-based): maxDistance
\* and maxIndex when it ends, that is the first index of the largest
\* distance, or 0 and 0 when no distance is above 0.
Farthest(points) ==
    LET end == Len(points) - 1
        distances == Force([i \in 1..(end - 1) |->
                        perpendicularDistance(points[i + 1], points[1], points[end + 1])])
        largest == {i \in 1..(end - 1) :
                        \A j \in 1..(end - 1) : ~FracGreater(distances[j], distances[i])}
        first == CHOOSE i \in largest : \A j \in largest : i <= j
    IN  IF FracGreater(distances[first], <<0, 1>>)
        THEN [maxDistance |-> distances[first], maxIndex |-> first]
        ELSE [maxDistance |-> <<0, 1>>, maxIndex |-> 0]

\* left.slice(0, -1).concat(right)
\* return [points[0], points[end]]: the simplified line segment
EndpointsInner(points) == <<points[1], points[Len(points) - 1]>>
Endpoints(points) == <<points[1], points[Len(points)]>>

JoinHalvesKeepJunction(left, right) == left \o right
JoinHalves(left, right) == SubSeq(left, 1, Len(left) - 1) \o right

RECURSIVE douglasPeucker(_, _, _)
douglasPeucker(points, tolerance, unit) ==
    IF Len(points) <= 2 THEN points
    ELSE LET far == Farthest(points)
         IN  IF ExceedsTolerance(far.maxDistance, tolerance, unit)
             THEN JoinHalves(
                    douglasPeucker(SubSeq(points, 1, far.maxIndex + 1), tolerance, unit),
                    douglasPeucker(SubSeq(points, far.maxIndex + 1, Len(points)),
                                   tolerance, unit))
             ELSE Endpoints(points)

\* simplifyPath with optimizationSettings.simplifyTolerance = tolerance
simplifyPath(c, tolerance) ==
    IF Len(c.points) <= 2 THEN c
    ELSE [c EXCEPT !.points = douglasPeucker(c.points, tolerance, c.unit)]

\* The path data as its commands; the numbers are in half units (1 / (2 unit))
\* so that the midpoints (current + next) / 2 stay exact.
MoveTo(p) == [cmd |-> "M", args |-> <<2 * p.x, 2 * p.y>>]
LineTo(p) == [cmd |-> "L", args |-> <<2 * p.x, 2 * p.y>>]
QuadToNext(current, next) ==
    [cmd |-> "Q", args |-> <<2 * next.x, 2 * next.y, current.x + next.x, current.y + next.y>>]
QuadTo(current, next) ==
    [cmd |-> "Q", args |-> <<2 * current.x, 2 * current.y,
                             current.x + next.x, current.y + next.y>>]

\* The loop of generateSmoothPathData from i (0-based) on.
RECURSIVE QuadCommands(_, _)
QuadCommands(points, i) ==
    IF i >= Len(points) - 1 THEN <<>>
    ELSE <<QuadTo(points[i + 1], points[i + 2])>> \o QuadCommands(points, i + 1)

generateSmoothPathData(points) ==
    IF Len(points) < 2 THEN <<>>
    ELSE IF Len(points) = 2 THEN <<MoveTo(points[1]), LineTo(points[2])>>
    ELSE <<MoveTo(points[1])>> \o QuadCommands(points, 1)
         \o <<LineTo(points[Len(points)])>>

\* Math.sqrt on integers, rounded down: the largest r in lo..hi with r * r <= v.
RECURSIVE SqrtIn(_, _, _)
SqrtIn(v, lo, hi) ==
    IF lo >= hi THEN lo
    ELSE LET mid == (lo + hi + 1) \div 2
         IN  IF mid * mid <= v THEN SqrtIn(v, mid, hi) ELSE SqrtIn(v, lo, mid - 1)

Sqrt(v) == SqrtIn(v, 0, Min2(v, 46340))

\* calculatePathLength in hundredths of 1/unit, every segment rounded down.
RECURSIVE calculatePathLength(_, _)
calculatePathLength(points, i) ==
    IF i > Len(points) THEN 0
    ELSE LET dx == points[i].x - points[i - 1].x
             dy == points[i].y - points[i - 1].y
         IN  Sqrt(10000 * (dx * dx + dy * dy)) + calculatePathLength(points, i + 1)

MinOf(S) == CHOOSE v \in S : \A u \in S : v <= u
MaxOf(S) == CHOOSE v \in S : \A u \in S : v >= u

calculateBounds(points) ==
    IF Len(points) = 0 THEN [x |-> 0, y |-> 0, width |-> 0, height |-> 0]
    ELSE LET xs == {points[i].x : i \in 1..Len(points)}
             ys == {points[i].y : i \in 1..Len(points)}
         IN  [x |-> MinOf(xs), y |-> MinOf(ys),
              width |-> MaxOf(xs) - MinOf(xs), height |-> MaxOf(ys) - MinOf(ys)]

Null == [null |-> TRUE]

createSVGPath(c) ==
    IF Len(c.points) < 2 THEN Null
    ELSE [null |-> FALSE,
          unit |-> c.unit,
          points |-> c.points,
          pathData |-> generateSmoothPathData(c.points),
          length |-> calculatePathLength(c.points, 2),
          bounds |-> calculateBounds(c.points)]

\* contours.map(...) followed by filter(path && path.points.length >= 3)
RECURSIVE VectorPaths(_)
VectorPaths(contours) ==
    IF contours = <<>> THEN <<>>
    ELSE LET path == createSVGPath(
                        simplifyPath(smoothContour(Contour(Head(contours))),
                                     Tolerance(simplifyTolerance)))
         IN  IF ~path.null /\ Len(path.points) >= 3
             THEN <<path>> \o VectorPaths(Tail(contours))
             ELSE VectorPaths(Tail(contours))

\* extractVectorPaths: the value the promise resolves with; no statement of
\* it throws for an ImageData argument.
extractVectorPaths(b) ==
    [error |-> "none",
     paths |-> VectorPaths(findContours(createBinaryMap(b), b.width, b.height))]

(***************************************************************************)
(* SpecPix: one filter applied to one input buffer                         *)
(***************************************************************************)
MaxSide == 5       \* largest width and height of the enumerated buffers

White == <<255, 255, 255, 255>>
Gray(v) == <<v, v, v, 255>>
GrayValues == {0, 128, 255}

WhiteBuffer(w, h) == [width |-> w, height |-> h, data |-> [i \in 1..(w * h) |-> White]]

\* The buffer of one gray value, except that pixel p (if p > 0) has value v.
Spotted(w, h, base, p, v) ==
    [width |-> w, height |-> h,
     data |-> [i \in 1..(w * h) |-> IF i = p THEN Gray(v) ELSE Gray(base)]]

\* Widths and heights of the enumerated buffers up to side n.
Sides(n) == {1, n - 1, n} \ {0}

\* The white and the black buffers with sides in Sides(n) and at most one
\* pixel of another gray value.
SmallBuffers(n) ==
    UNION { UNION { { Spotted(w, h, base, p, v) :
                        base \in {0, 255}, p \in 0..(w * h), v \in GrayValues }
                    : h \in Sides(n) }
            : w \in Sides(n) }

\* The white n x n buffers with two black pixels.
TwoSpeckles(n) ==
    { [width |-> n, height |-> n,
       data |-> [i \in 1..(n * n) |-> IF i \in {p, q} THEN Gray(0) ELSE White]] :
      p \in 1..(n * n), q \in 1..(n * n) }

\* Buffers of coloured and translucent pixels: pixel i has colour
\* (i + shift) of the palette.
Palette == << <<200, 10, 60, 128>>, <<127, 128, 129, 255>>, <<128, 0, 255, 0>>,
              <<12, 200, 77, 254>>, <<255, 255, 0, 255>> >>

Mosaic(w, h, shift) ==
    [width |-> w, height |-> h,
     data |-> [i \in 1..(w * h) |-> Palette[((i + shift) % Len(Palette)) + 1]]]

Mosaics(n) ==
    { Mosaic(w, h, shift) : w \in Sides(n), h \in Sides(n), shift \in 1..Len(Palette) }

\* The uniformly white s x s buffer of the end-to-end scenario (s = 50).
WhiteScenario(s) == WhiteBuffer(s, s)

\* The s x s buffer of the end-to-end scenario (s = 10): white except the
\* black square (lo, lo)-(hi, hi).
SquareScenario(s, lo, hi) ==
    [width |-> s, height |-> s,
     data |-> [i \in 1..(s * s) |->
        IF /\ XOf(i, s) >= lo /\ XOf(i, s) <= hi
           /\ YOf(i, s) >= lo /\ YOf(i, s) <= hi
        THEN Gray(0) ELSE White]]

\* The one-row buffer of every gray value 0 .. levels - 1.
GrayRamp(levels) ==
    [width |-> levels, height |-> 1, data |-> [i \in 1..levels |-> Gray(i - 1)]]

PixInputs(n) ==
    SmallBuffers(n) \cup TwoSpeckles(n) \cup Mosaics(n)
        \cup {WhiteScenario(50), SquareScenario(10, 3, 6), GrayRamp(256)}

PipelineSettings(defaults) ==
    {defaults, [complexityLevel |-> "simple", lineWeight |-> "thick"]}

PixOp(name, settings, k) == [name |-> name, settings |-> settings, blur |-> k]

InitPix ==
    /\ pixIn \in PixInputs(MaxSide)
    /\ pixOut = pixIn
    /\ pixOp = PixOp("input", NoSettings, 0)
    /\ VecIdle
    /\ CanvasIdle
    /\ selectedFiles = <<>>
    /\ processedImages = <<>>
    /\ isProcessing = FALSE
    /\ cancelled = FALSE
    /\ currentSettings = NoSettings
    /\ currentStage = "ready"
    /\ runs = [r \in RunIds |-> IdleRun]
    /\ nRuns = 0
    /\ nTimers = 0
    /\ nEvents = 0

Filter(name, settings, k, out) ==
    /\ pixOp.name = "input"
    /\ pixOp' = PixOp(name, settings, k)
    /\ pixOut' = out
    /\ UNCHANGED <<pixIn, ctlVars, vecVars, canvasVars>>

PixDetectEdges == Filter("detectEdges", NoSettings, 0, detectEdges(pixIn))
PixErosion == Filter("erosion", NoSettings, 0, morphologicalErosion(pixIn))
PixDilation == Filter("dilation", NoSettings, 0, morphologicalDilation(pixIn))
PixMorphology ==
    \E s \in PipelineSettings(NoSettings) :
        Filter("morphology", s, 0, applyMorphologicalOperations(pixIn, s))
PixPipeline ==
    \E s \in PipelineSettings(NoSettings) : \E k \in BlurKernels :
        Filter("pipeline", s, k, applyProcessingPipeline(pixIn, s, k))

PixGrayscale == Filter("grayscale", NoSettings, 0, convertToGrayscale(pixIn))
PixBinarize == Filter("binarize", NoSettings, 0, finalCleanup(pixIn))

\* findContours on the ink map of the buffer: the contours it traces and
\* those it returns.
PixTrace ==
    Filter("trace", NoSettings, 0,
           [regions |-> ScanContours(createBinaryMap(pixIn), pixIn.width,
                                     pixIn.height, 1, {}, <<>>),
            contours |-> findContours(createBinaryMap(pixIn), pixIn.width,
                                      pixIn.height)])

PixExtract == Filter("extract", NoSettings, 0, extractVectorPaths(pixIn))

NextPix ==
    \/ PixDetectEdges
    \/ PixErosion
    \/ PixDilation
    \/ PixMorphology
    \/ PixPipeline
    \/ PixGrayscale
    \/ PixBinarize
    \/ PixTrace
    \/ PixExtract

SpecPix == InitPix /\ [][NextPix]_vars

\* -------- Specification SpecCanvas: the canvas size of setupCanvas ----------

maxWidth == 1200
maxHeight == 1200

\* Math.round of the quotient num / den of two positive integers: the nearest
\* integer, a half rounded up.
Round(num, den) == (2 * num + den) \div (2 * den)

\* setupCanvas: the canvas size for a decoded image.  height = width /
\* aspectRatio is maxWidth * img.height / img.width, and width = height *
\* aspectRatio is maxHeight * img.width / img.height.
setupCanvas(img) ==
    IF img.width > maxWidth \/ img.height > maxHeight
    THEN IF img.width > img.height
         THEN [width |-> Round(maxWidth, 1),
               height |-> Round(maxWidth * img.height, img.width)]
         ELSE [width |-> Round(maxHeight * img.width, img.height),
               height |-> Round(maxHeight, 1)]
    ELSE [width |-> Round(img.width, 1), height |-> Round(img.height, 1)]

\* Image sides around the limit, its multiples and the sides whose scaled
\* partner is near one half.
ImageSides ==
    {1, 2, 3, 7, 599, 600, 1199, 1200, 1201, 1800, 2399, 2400, 2401, 3600,
     4799, 4800, 4801, 5000}

\* A new canvas element is 300 x 150.
InitCanvas ==
    /\ image \in {[width |-> w, height |-> h] : w \in ImageSides, h \in ImageSides}
    /\ canvas = [width |-> 300, height |-> 150]
    /\ canvasOp = "created"
    /\ PixIdle
    /\ VecIdle
    /\ selectedFiles = <<>>
    /\ processedImages = <<>>
    /\ isProcessing = FALSE
    /\ cancelled = FALSE
    /\ currentSettings = NoSettings
    /\ currentStage = "ready"
    /\ runs = [r \in RunIds |-> IdleRun]
    /\ nRuns = 0
    /\ nTimers = 0
    /\ nEvents = 0

\* img.onload calls setupCanvas(img).
CanvasSetup ==
    /\ canvasOp = "created"
    /\ canvas' = setupCanvas(image)
    /\ canvasOp' = "setupCanvas"
    /\ UNCHANGED <<image, ctlVars, pixVars, vecVars>>

NextCanvas == CanvasSetup

SpecCanvas == InitCanvas /\ [][NextCanvas]_vars

\* -------- Specification SpecTrace: the tracer on small and large regions ----

\* The s x s buffer that is ink everywhere: one region of s * s pixels.
BlackScenario(s) ==
    [width |-> s, height |-> s, data |-> [i \in 1..(s * s) |-> Gray(0)]]

\* Buffers for the tracer: the small ones, and one whose region (32 x 32 =
\* 1024 pixels) is larger than maxPoints.
TraceInputs(n) == SmallBuffers(n) \cup TwoSpeckles(n) \cup {BlackScenario(32)}

InitTrace ==
    /\ pixIn \in TraceInputs(MaxSide)
    /\ pixOut = pixIn
    /\ pixOp = PixOp("input", NoSettings, 0)
    /\ VecIdle
    /\ CanvasIdle
    /\ selectedFiles = <<>>
    /\ processedImages = <<>>
    /\ isProcessing = FALSE
    /\ cancelled = FALSE
    /\ currentSettings = NoSettings
    /\ currentStage = "ready"
    /\ runs = [r \in RunIds |-> IdleRun]
    /\ nRuns = 0
    /\ nTimers = 0
    /\ nEvents = 0

NextTrace == PixTrace

SpecTrace == InitTrace /\ [][NextTrace]_vars

\* -------- Specification SpecCalls: the stages as calls on pixel arrays ------

\* A call state m = [heap, ref, log]: heap is the sequence of pixel arrays
\* allocated so far, ref the index of the array of the current ImageData, log
\* the stage functions called so far.
FirstCall(b) == [heap |-> <<b.data>>, ref |-> 1, log |-> <<>>]

\* The ImageData of call state m.
Current(m, w, h) == [width |-> w, height |-> h, data |-> m.heap[m.ref]]

\* data = new Uint8ClampedArray(imageData.data); result = new ImageData(data,
\* ...): the result's array is a new copy of the input's array.
AliasSource(m) == m
CopySource(m) ==
    [m EXCEPT !.heap = Append(m.heap, m.heap[m.ref]), !.ref = Len(m.heap) + 1]

\* The stage writes the pixels of data into the array of its result.
WriteResult(m, name, data) ==
    [heap |-> [m.heap EXCEPT ![m.ref] = data], ref |-> m.ref,
     log |-> Append(m.log, name)]

\* The stage returns an ImageData with a new array (new ImageData(w, h), or
\* getImageData).
FreshResult(m, name, data) ==
    [heap |-> Append(m.heap, data), ref |-> Len(m.heap) + 1,
     log |-> Append(m.log, name)]

convertToGrayscaleCall(m, w, h) ==
    WriteResult(CopySource(m), "convertToGrayscale",
                convertToGrayscale(Current(m, w, h)).data)

adjustContrastBrightnessCall(m, w, h) ==
    WriteResult(CopySource(m), "adjustContrastBrightness",
                adjustContrastBrightness(Current(m, w, h)).data)

applyGaussianBlurCall(m, w, h, k) ==
    FreshResult(m, "applyGaussianBlur", applyGaussianBlur(Current(m, w, h), k).data)

detectEdgesCall(m, w, h) ==
    FreshResult(m, "detectEdges", detectEdges(Current(m, w, h)).data)

morphologicalErosionCall(m, w, h) ==
    FreshResult(m, "morphologicalErosion",
                morphologicalErosion(Current(m, w, h)).data)

morphologicalDilationCall(m, w, h) ==
    FreshResult(m, "morphologicalDilation",
                morphologicalDilation(Current(m, w, h)).data)

\* The loop of applyMorphologicalOperations: n openings from call state m.
RECURSIVE OpeningCalls(_, _, _, _)
OpeningCalls(m, w, h, n) ==
    IF n <= 0 THEN m
    ELSE OpeningCalls(morphologicalDilationCall(morphologicalErosionCall(m, w, h),
                                                w, h),
                      w, h, n - 1)

applyMorphologicalOperationsCall(m, w, h, settings) ==
    OpeningCalls(m, w, h, MorphIterations(settings))

\* The loop of adjustLineWeight: n dilations from call state m.
RECURSIVE DilationCalls(_, _, _, _)
DilationCalls(m, w, h, n) ==
    IF n <= 0 THEN m
    ELSE DilationCalls(morphologicalDilationCall(m, w, h), w, h, n - 1)

adjustLineWeightCall(m, w, h, settings) ==
    DilationCalls(m, w, h, LineWeightPasses(settings))

finalCleanupCall(m, w, h) ==
    WriteResult(CopySource(m), "finalCleanup", finalCleanup(Current(m, w, h)).data)

\* applyProcessingPipeline: the call states before stage 1 and after each of
\* the seven stages.
applyProcessingPipelineCalls(b, settings, k) ==
    LET w == b.width
        h == b.height
        m1 == convertToGrayscaleCall(FirstCall(b), w, h)
        m2 == adjustContrastBrightnessCall(m1, w, h)
        m3 == applyGaussianBlurCall(m2, w, h, k)
        m4 == detectEdgesCall(m3, w, h)
        m5 == applyMorphologicalOperationsCall(m4, w, h, settings)
        m6 == adjustLineWeightCall(m5, w, h, settings)
        m7 == finalCleanupCall(m6, w, h)
    IN  <<FirstCall(b), m1, m2, m3, m4, m5, m6, m7>>

\* The settings objects the stage calls are made under: unset, and every
\* complexity level with every line weight.
StageSettings ==
    {NoSettings} \cup
    {[complexityLevel |-> c, lineWeight |-> l] : c \in ComplexityLevels,
                                                 l \in LineWeights}

CallInputs(n) == SmallBuffers(n) \cup Mosaics(n) \cup {SquareScenario(10, 3, 6)}

InitCalls ==
    /\ pixIn \in CallInputs(MaxSide)
    /\ pixOut = pixIn
    /\ pixOp = PixOp("input", NoSettings, 0)
    /\ VecIdle
    /\ CanvasIdle
    /\ selectedFiles = <<>>
    /\ processedImages = <<>>
    /\ isProcessing = FALSE
    /\ cancelled = FALSE
    /\ currentSettings = NoSettings
    /\ currentStage = "ready"
    /\ runs = [r \in RunIds |-> IdleRun]
    /\ nRuns = 0
    /\ nTimers = 0
    /\ nEvents = 0

\* applyMorphologicalOperations called on the buffer: the call states before
\* and after.
CallMorphology ==
    \E s \in StageSettings :
        Filter("morphologyCall", s, 0,
               <<FirstCall(pixIn),
                 applyMorphologicalOperationsCall(FirstCall(pixIn), pixIn.width,
                                                  pixIn.height, s)>>)

\* adjustLineWeight called on the buffer: the call states before and after.
CallLineWeight ==
    \E s \in StageSettings :
        Filter("lineWeightCall", s, 0,
               <<FirstCall(pixIn),
                 adjustLineWeightCall(FirstCall(pixIn), pixIn.width,
                                      pixIn.height, s)>>)

\* The whole pipeline called on the buffer.
CallPipeline ==
    \E s \in PipelineSettings([complexityLevel |-> "complex", lineWeight |-> "thin"]) :
        \E k \in BlurKernels :
            Filter("pipelineCall", s, k, applyProcessingPipelineCalls(pixIn, s, k))

NextCalls ==
    \/ CallMorphology
    \/ CallLineWeight
    \/ CallPipeline

SpecCalls == InitCalls /\ [][NextCalls]_vars

(***************************************************************************)
(* SpecVec: one operation of SVGVectorGenerator applied to one point       *)
(* sequence                                                                *)
(***************************************************************************)
MaxPts == 4        \* longest enumerated point sequence

Coords == {0, 1, 2}
GridPoints == {[x |-> a, y |-> b] : a \in Coords, b \in Coords}

\* The sequences of at most m grid points.
RECURSIVE GridSeqs(_)
GridSeqs(m) ==
    IF m = 0 THEN {<<>>}
    ELSE LET shorter == GridSeqs(m - 1)
         IN  shorter \cup {Append(q, pt) : q \in {r \in shorter : Len(r) = m - 1},
                                            pt \in GridPoints}

\* Longer sequences, for every window size of smoothContour.
Zigzag(n) == [i \in 1..n |-> [x |-> i, y |-> (i * i) % 7]]
LongLengths == {5, 9, 10, 19, 20, 50}

PointInputs(m) ==
    {Contour(q) : q \in GridSeqs(m)}
        \cup {Contour(Zigzag(n)) : n \in LongLengths}
        \cup {smoothContour(Contour(Zigzag(n))) : n \in {10, 19}}

VecOp(name, tolerance) == [name |-> name, tolerance |-> tolerance]

InitVec ==
    /\ vecIn \in PointInputs(MaxPts)
    /\ vecOut = vecIn
    /\ vecOp = VecOp("input", Tolerance(0))
    /\ PixIdle
    /\ CanvasIdle
    /\ selectedFiles = <<>>
    /\ processedImages = <<>>
    /\ isProcessing = FALSE
    /\ cancelled = FALSE
    /\ currentSettings = NoSettings
    /\ currentStage = "ready"
    /\ runs = [r \in RunIds |-> IdleRun]
    /\ nRuns = 0
    /\ nTimers = 0
    /\ nEvents = 0

Operation(name, tolerance, out) ==
    /\ vecOp.name = "input"
    /\ vecOp' = VecOp(name, tolerance)
    /\ vecOut' = out
    /\ UNCHANGED <<vecIn, ctlVars, pixVars, canvasVars>>

VecSmooth == Operation("smoothContour", Tolerance(0), smoothContour(vecIn))
VecDouglasPeucker ==
    \E t \in Tolerances :
        Operation("douglasPeucker", t,
                  [vecIn EXCEPT !.points = douglasPeucker(vecIn.points, t, vecIn.unit)])
VecSimplify ==
    \E t \in Tolerances : Operation("simplifyPath", t, simplifyPath(vecIn, t))
VecBuild == Operation("createSVGPath", Tolerance(0), createSVGPath(vecIn))

NextVec ==
    \/ VecSmooth
    \/ VecDouglasPeucker
    \/ VecSimplify
    \/ VecBuild

SpecVec == InitVec /\ [][NextVec]_vars

(***************************************************************************)
(* Properties of the filters                                               *)
(***************************************************************************)
Pixels(b) == 1..(b.width * b.height)
IsInk(b, i) == b.data[i][1] = 0
IsBackground(b, i) == b.data[i][1] = 255 /\ b.data[i][2] = 255 /\ b.data[i][3] = 255
TwoValued(b) == \A i \in Pixels(b) : b.data[i] \in {Gray(0), Gray(255)}
OnBorderRing(b, i) ==
    \/ XOf(i, b.width) = 0 \/ XOf(i, b.width) = b.width - 1
    \/ YOf(i, b.width) = 0 \/ YOf(i, b.width) = b.height - 1

\* C7: the pipeline turns the uniformly white 50 x 50 buffer into a buffer
\* whose pixels are all 255, in which the tracer finds nothing to extract.
C7_WhiteStaysWhite ==
    (pixOp.name = "pipeline" /\ pixIn = WhiteScenario(50)) =>
        /\ \A i \in Pixels(pixOut) : pixOut.data[i] = White
        /\ findContours(createBinaryMap(pixOut), pixOut.width, pixOut.height) = <<>>

\* C8: after edge detection every pixel of the 1-pixel border ring is
\* background (255).
C8_EdgeBorderIsBackground ==
    pixOp.name = "detectEdges" =>
        \A i \in Pixels(pixOut) : OnBorderRing(pixOut, i) => IsBackground(pixOut, i)

\* C9: one round of opening of a two-valued buffer has ink only where the
\* buffer had ink.
C9_OpeningAddsNoInk ==
    (pixOp.name = "morphology" /\ MorphIterations(pixOp.settings) = 1
        /\ TwoValued(pixIn)) =>
        \A i \in Pixels(pixOut) : IsInk(pixOut, i) => IsInk(pixIn, i)

\* C10: one round of opening of a buffer that is background except for one
\* ink pixel makes that pixel background.
C10_OpeningRemovesSpeckle ==
    (pixOp.name = "morphology" /\ MorphIterations(pixOp.settings) = 1
        /\ TwoValued(pixIn)) =>
        \A p \in Pixels(pixIn) :
            (\A i \in Pixels(pixIn) : IsInk(pixIn, i) <=> i = p) =>
                IsBackground(pixOut, p)

\* A buffer is binarized when every colour channel of every pixel is 0 or 255.
Binarized(b) ==
    \A i \in Pixels(b) : \A c \in 1..3 : b.data[i][c] \in {0, 255}

\* C11: the vector extractor fails with ExtractionError exactly when its
\* input buffer is not binarized; on a binarized buffer it returns a list of
\* paths without an error.
C11_ExtractionErrorIffNotBinarized ==
    pixOp.name = "extract" =>
        /\ pixOut.error = "ExtractionError" <=> ~Binarized(pixIn)
        /\ Binarized(pixIn) => pixOut.error = "none"

\* The ink pixels of a buffer as the tracer reads them: red channel dark.
InkPixels(b) == {i \in Pixels(b) : b.data[i][1] < 128}

\* C13: the tracer returns no contour for a buffer without ink; for a buffer
\* whose only ink is one pixel it traces at most one region and returns
\* either nothing or that pixel as a single one-point contour.
C13_TracerOnEmptyAndSpeckle ==
    pixOp.name = "trace" =>
        /\ InkPixels(pixIn) = {} =>
              pixOut.regions = <<>> /\ pixOut.contours = <<>>
        /\ \A p \in Pixels(pixIn) :
              InkPixels(pixIn) = {p} =>
                  /\ Len(pixOut.regions) <= 1
                  /\ \/ pixOut.contours = <<>>
                     \/ pixOut.contours =
                          << <<[x |-> XOf(p, pixIn.width), y |-> YOf(p, pixIn.width)]>> >>

C13_Witness ==
    /\ pixOp.name = "trace"
    /\ Cardinality(InkPixels(pixIn)) = 1
    /\ Len(pixOut.regions) = 1
    /\ pixOut.contours = <<>>

\* |v / unit - target| <= 1
WithinOne(v, unit, target) ==
    v >= (target - 1) * unit /\ v <= (target + 1) * unit

\* C14: extracting from the 10 x 10 buffer that is white except the black
\* square (3,3)-(6,6) yields exactly one path, with a bounding box within 1
\* of {x: 3, y: 3, width: 3, height: 3} in each field and a length above 0.
C14_SquareYieldsOnePath ==
    (pixOp.name = "extract" /\ pixIn = SquareScenario(10, 3, 6)) =>
        /\ Len(pixOut.paths) = 1
        /\ LET path == pixOut.paths[1]
           IN  /\ WithinOne(path.bounds.x, path.unit, 3)
               /\ WithinOne(path.bounds.y, path.unit, 3)
               /\ WithinOne(path.bounds.width, path.unit, 3)
               /\ WithinOne(path.bounds.height, path.unit, 3)
               /\ path.length > 0

\* C18: every pixel of the binarize output has R, G and B in {0, 255} and
\* alpha 255, and binarizing the output again returns an equal buffer.
C18_BinarizeTwoValuedIdempotent ==
    pixOp.name = "binarize" =>
        /\ \A i \in Pixels(pixOut) :
              /\ \A c \in 1..3 : pixOut.data[i][c] \in {0, 255}
              /\ pixOut.data[i][4] = 255
        /\ finalCleanup(pixOut) = pixOut

C18_Witness ==
    /\ pixOp.name = "binarize"
    /\ \E i \in Pixels(pixIn) :
          /\ pixIn.data[i][1] \notin {0, 255}
          /\ pixIn.data[i][2] # pixIn.data[i][1]
          /\ pixIn.data[i][4] # 255
    /\ \E i \in Pixels(pixOut) : pixOut.data[i][1] = 0
    /\ \E i \in Pixels(pixOut) : pixOut.data[i][1] = 255

\* C19: applying the grayscale stage to its own output returns an equal
\* buffer.
C19_GrayscaleIdempotent ==
    pixOp.name = "grayscale" => convertToGrayscale(pixOut) = pixOut

C19_Witness ==
    /\ pixOp.name = "grayscale"
    /\ pixOut # pixIn
    /\ \E i \in Pixels(pixIn) : pixIn.data[i][1] # pixIn.data[i][2]

\* Pixels i and j of a buffer of width w touch (8-neighbourhood).
Touch(i, j, w) ==
    /\ i # j
    /\ XOf(i, w) - XOf(j, w) \in {-1, 0, 1}
    /\ YOf(i, w) - YOf(j, w) \in {-1, 0, 1}

\* The pixels of `ink` that are 8-connected to the pixels of S.
RECURSIVE Component(_, _, _)
Component(S, ink, w) ==
    LET grown == S \cup {j \in ink : \E i \in S : Touch(i, j, w)}
    IN  IF grown = S THEN S ELSE Component(grown, ink, w)

PixelOf(point, w) == point.y * w + point.x + 1

\* C20: the traced regions are the 8-connected components of the ink map:
\* every ink pixel is a point of exactly one region, once, and a region is
\* the set of the ink pixels connected to its seed (components below the
\* point cap).
C20_RegionsAreComponents ==
    pixOp.name = "trace" =>
        LET w == pixIn.width
            ink == InkPixels(pixIn)
            regions == pixOut.regions
        IN  /\ \A i \in ink :
                  Cardinality({rk \in {<<r, k>> : r \in 1..Len(regions), k \in 1..maxPoints} :
                                  /\ rk[2] <= Len(regions[rk[1]])
                                  /\ PixelOf(regions[rk[1]][rk[2]], w) = i}) = 1
            /\ \A r \in 1..Len(regions) :
                  LET member == {PixelOf(regions[r][k], w) : k \in 1..Len(regions[r])}
                      whole == Component({PixelOf(regions[r][1], w)}, ink, w)
                  IN  Cardinality(whole) < maxPoints =>
                          /\ member = whole
                          /\ Cardinality(member) = Len(regions[r])

(***************************************************************************)
(* Properties of the point-sequence operations                             *)
(***************************************************************************)
\* C12 as stated: Douglas-Peucker with tolerance 0 returns its input
\* unchanged, and with tolerance infinity returns exactly the two endpoints
\* of an input of 2 or more points.
C12_ZeroKeepsAllInfinityKeepsEnds ==
    vecOp.name = "douglasPeucker" =>
        /\ vecOp.tolerance = Tolerance(0) => vecOut.points = vecIn.points
        /\ (vecOp.tolerance = Infinity /\ Len(vecIn.points) >= 2) =>
              vecOut.points = <<vecIn.points[1], vecIn.points[Len(vecIn.points)]>>

\* p lies on the straight segment from a to b.
OnSegment(p, a, b) ==
    LET A == p.x - a.x
        B == p.y - a.y
        C == b.x - a.x
        D == b.y - a.y
    IN  /\ A * D - B * C = 0
        /\ A * C + B * D >= 0
        /\ A * C + B * D <= C * C + D * D

\* out is in from position i on what is left from position j on of the
\* kept points, every point left out lying on the segment between the kept
\* points around it; the first and the last point are kept.
RECURSIVE DropsOnlyOnSegment(_, _, _, _, _)
DropsOnlyOnSegment(in, out, i, j, last) ==
    IF i > Len(in) THEN j > Len(out)
    ELSE /\ j <= Len(out)
         /\ \/ in[i] = out[j] /\ DropsOnlyOnSegment(in, out, i + 1, j + 1, i)
            \/ /\ last > 0
               /\ OnSegment(in[i], in[last], out[j])
               /\ DropsOnlyOnSegment(in, out, i + 1, j, last)

\* C12 (amended): with tolerance 0 Douglas-Peucker leaves out only points
\* that lie on the segment between the points it keeps before and after
\* them, and keeps the first and the last point; with tolerance infinity it
\* returns exactly the two endpoints of an input of 2 or more points.
C12_ZeroDropsOnlyOnChord ==
    vecOp.name = "douglasPeucker" =>
        /\ vecOp.tolerance = Tolerance(0) =>
              DropsOnlyOnSegment(vecIn.points, vecOut.points, 1, 1, 0)
        /\ (vecOp.tolerance = Infinity /\ Len(vecIn.points) >= 2) =>
              vecOut.points = <<vecIn.points[1], vecIn.points[Len(vecIn.points)]>>

C12_Witness ==
    /\ vecOp.name = "douglasPeucker"
    /\ vecOp.tolerance = Tolerance(0)
    /\ Len(vecOut.points) >= 3
    /\ Len(vecOut.points) < Len(vecIn.points)

\* C15: simplification never increases the point count, whatever the
\* tolerance.
C15_SimplifyNeverLonger ==
    vecOp.name \in {"simplifyPath", "douglasPeucker"} =>
        Len(vecOut.points) <= Len(vecIn.points)

C15_Witness ==
    /\ vecOp.name = "simplifyPath"
    /\ vecOp.tolerance = Tolerance(simplifyTolerance)
    /\ Len(vecOut.points) >= 3
    /\ Len(vecOut.points) < Len(vecIn.points)

\* C16: smoothing returns as many points as it was given, and returns a
\* sequence of fewer than 5 points as it is.
C16_SmoothKeepsLength ==
    vecOp.name = "smoothContour" =>
        /\ Len(vecOut.points) = Len(vecIn.points)
        /\ Len(vecIn.points) < 5 => vecOut = vecIn

C16_Witness ==
    /\ vecOp.name = "smoothContour"
    /\ Len(vecIn.points) >= 10
    /\ vecOut.unit = 3 * vecIn.unit
    /\ vecOut.points # vecIn.points

\* The commands of a path, in half units: a move or a straight segment to p,
\* and a quadratic with control p that ends midway between p and q.
IsMoveTo(c, p) == c.cmd = "M" /\ c.args = <<2 * p.x, 2 * p.y>>
IsLineTo(c, p) == c.cmd = "L" /\ c.args = <<2 * p.x, 2 * p.y>>
IsQuad(c, p, q) ==
    /\ c.cmd = "Q"
    /\ c.args[1] = 2 * p.x /\ c.args[2] = 2 * p.y
    /\ c.args[3] = p.x + q.x /\ c.args[4] = p.y + q.y

C25_AtMostOneRunInFlight ==
    Cardinality({r \in RunIds : InFlight(r)}) <= 1

\* C26: while a run is in flight AppState.isProcessing is true and
\* currentStage is 'processing'.
C26_InFlightMeansProcessing ==
    (\E r \in RunIds : InFlight(r)) =>
        /\ isProcessing
        /\ currentStage = "processing"

\* C27: once the state has been reset (stage 'ready', no results), it stays
\* so until the next startImageProcessing: no step of an earlier run writes
\* processedImages or moves currentStage.
C27_ResetStateStaysUntilStart ==
    [][(/\ currentStage = "ready"
        /\ processedImages = <<>>
        /\ nRuns' = nRuns)
       => (currentStage' = "ready" /\ processedImages' = <<>>)]_vars

\* C28: every run that was started ends, and the step that ends it leaves
\* isProcessing false (handleProcessingComplete or handleProcessingError), so
\* the controller does not stay in the processing state forever.
C28_EveryRunEnds ==
    /\ \A r \in RunIds : InFlight(r) ~> (runs[r].pc \in {"done", "failed"})
    /\ isProcessing ~> ~isProcessing
    /\ [][\A r \in RunIds :
            (InFlight(r) /\ ~InFlight(r)') =>
                (runs'[r].pc \in {"done", "failed"} /\ ~isProcessing')]_vars

\* Two runs have ended, one by handleProcessingComplete and one by
\* handleProcessingError, and isProcessing is false.
C28_Witness ==
    /\ ~isProcessing
    /\ \E r \in RunIds : runs[r].pc = "done"
    /\ \E r \in RunIds : runs[r].pc = "failed"

\* -------- Properties of the tracer's contour sizes (SpecTrace) --------------

\* The in-map ink pixels 8-adjacent to the pixel at flat index i.
InkNeighbours(b, i) ==
    {j \in InkPixels(b) : j # i /\ Touch(i, j, b.width)}

\* The pixels traced by regions 1 .. r of a trace result.
TracedUpTo(regions, r, w) ==
    UNION {{PixelOf(regions[q][k], w) : k \in 1..Len(regions[q])} : q \in 1..r}

\* C21: every contour the tracer returns has at most maxPoints and at least
\* minPathLength points; the trace of one region stops at the cap or when the
\* stack is empty, that is when every ink neighbour of its pixels is traced.
C21_ContourSizeBounds ==
    pixOp.name = "trace" =>
        /\ \A c \in 1..Len(pixOut.contours) :
              /\ Len(pixOut.contours[c]) <= maxPoints
              /\ Len(pixOut.contours[c]) >= minPathLength
        /\ \A r \in 1..Len(pixOut.regions) :
              /\ Len(pixOut.regions[r]) <= maxPoints
              /\ Len(pixOut.regions[r]) >= 1
              /\ Len(pixOut.regions[r]) < maxPoints =>
                    \A k \in 1..Len(pixOut.regions[r]) :
                        InkNeighbours(pixIn, PixelOf(pixOut.regions[r][k], pixIn.width))
                            \subseteq TracedUpTo(pixOut.regions, r, pixIn.width)

\* A region of more than maxPoints pixels was traced up to the cap and
\* returned.
C21_Witness ==
    /\ pixOp.name = "trace"
    /\ Cardinality(InkPixels(pixIn)) > maxPoints
    /\ \E c \in 1..Len(pixOut.contours) : Len(pixOut.contours[c]) = maxPoints


\* -------- Properties of the stage calls (SpecCalls) -------------------------

\* The log of n openings, and of n dilations.
RECURSIVE OpeningLog(_)
OpeningLog(n) ==
    IF n = 0 THEN <<>>
    ELSE <<"morphologicalErosion", "morphologicalDilation">> \o OpeningLog(n - 1)

RECURSIVE DilationLog(_)
DilationLog(n) ==
    IF n = 0 THEN <<>> ELSE <<"morphologicalDilation">> \o DilationLog(n - 1)

\* C22: the opening stage performs 2 rounds of erosion then dilation for
\* "simple", 1 for "moderate" and 0 for "complex"; with 0 rounds it returns
\* the very buffer it was given, unchanged.
C22_OpeningRoundsByComplexity ==
    pixOp.name = "morphologyCall" =>
        /\ pixOp.settings.complexityLevel = "simple" => pixOut[2].log = OpeningLog(2)
        /\ pixOp.settings.complexityLevel = "moderate" => pixOut[2].log = OpeningLog(1)
        /\ pixOp.settings.complexityLevel = "complex" => pixOut[2].log = OpeningLog(0)
        /\ pixOut[2].log = <<>> =>
              /\ pixOut[2].ref = pixOut[1].ref
              /\ pixOut[2].heap = <<pixIn.data>>

\* The three complexity levels, on a buffer that the second opening changes.
C22_Witness ==
    /\ pixOp.name = "morphologyCall"
    /\ pixOp.settings.complexityLevel = "simple"
    /\ Len(pixOut[2].heap) = 5
    /\ pixOut[2].heap[5] # pixOut[2].heap[3]

\* C23: the line-weight stage performs 0 dilations for "thin", 1 for "medium"
\* and 2 for "thick"; with no pass it returns the very buffer it was given,
\* unchanged.
C23_DilationsByLineWeight ==
    pixOp.name = "lineWeightCall" =>
        /\ pixOp.settings.lineWeight = "thin" => pixOut[2].log = DilationLog(0)
        /\ pixOp.settings.lineWeight = "medium" => pixOut[2].log = DilationLog(1)
        /\ pixOp.settings.lineWeight = "thick" => pixOut[2].log = DilationLog(2)
        /\ pixOut[2].log = <<>> =>
              /\ pixOut[2].ref = pixOut[1].ref
              /\ pixOut[2].heap = <<pixIn.data>>

\* Two dilations ran for "thick" and the buffer returned differs from the
\* one given.
C23_Witness ==
    /\ pixOp.name = "lineWeightCall"
    /\ pixOp.settings.lineWeight = "thick"
    /\ Len(pixOut[2].heap) = 3
    /\ pixOut[2].ref = 3
    /\ pixOut[2].heap[3] # pixIn.data

\* C24: no stage of the pipeline changes a pixel array that existed before
\* it was called, so after the pipeline the original buffer holds the same
\* pixels.
C24_StagesLeaveInputsUnchanged ==
    pixOp.name = "pipelineCall" =>
        /\ \A i \in 1..(Len(pixOut) - 1) :
              \A j \in 1..Len(pixOut[i].heap) :
                  pixOut[i + 1].heap[j] = pixOut[i].heap[j]
        /\ pixOut[Len(pixOut)].heap[1] = pixIn.data

\* The pipeline ran to its last stage and its result differs from the
\* original buffer.
C24_Witness ==
    /\ pixOp.name = "pipelineCall"
    /\ Len(pixOut) = NumStages + 1
    /\ pixOut[Len(pixOut)].log[Len(pixOut[Len(pixOut)].log)] = "finalCleanup"
    /\ pixOut[Len(pixOut)].heap[pixOut[Len(pixOut)].ref] # pixIn.data


\* -------- Properties of the simplifier's output (SpecVec) -------------------

\* out is a subsequence of inp from index i of out and index j of inp on: the
\* same points in the same order.
RECURSIVE IsSubsequenceFrom(_, _, _, _)
IsSubsequenceFrom(out, inp, i, j) ==
    IF i > Len(out) THEN TRUE
    ELSE IF j > Len(inp) THEN FALSE
    ELSE IF out[i] = inp[j] THEN IsSubsequenceFrom(out, inp, i + 1, j + 1)
    ELSE IsSubsequenceFrom(out, inp, i, j + 1)

\* C29: for an input of 2 or more points and any tolerance, the output of
\* douglasPeucker is a subsequence of the input that starts with the input's
\* first point and ends with its last point.
C29_OutputIsSubsequenceWithEnds ==
    (vecOp.name = "douglasPeucker" /\ Len(vecIn.points) >= 2) =>
        /\ IsSubsequenceFrom(vecOut.points, vecIn.points, 1, 1)
        /\ Len(vecOut.points) >= 2
        /\ vecOut.points[1] = vecIn.points[1]
        /\ vecOut.points[Len(vecOut.points)] = vecIn.points[Len(vecIn.points)]

\* The simplifier kept an inner point and dropped another.
C29_Witness ==
    /\ vecOp.name = "douglasPeucker"
    /\ vecOp.tolerance = Tolerance(simplifyTolerance)
    /\ Len(vecIn.points) >= 5
    /\ Len(vecOut.points) >= 3
    /\ Len(vecOut.points) < Len(vecIn.points)


\* -------- Properties of the canvas size (SpecCanvas) ------------------------

\* C30: for an image of positive width and height, setupCanvas sets a canvas
\* width and height both at least 1 and at most 1200, and an image within
\* 1200 x 1200 keeps its size.
C30_CanvasSizeInRange ==
    (canvasOp = "setupCanvas" /\ image.width >= 1 /\ image.height >= 1) =>
        /\ canvas.width >= 1
        /\ canvas.width <= 1200
        /\ canvas.height >= 1
        /\ canvas.height <= 1200
        /\ (image.width <= 1200 /\ image.height <= 1200) => canvas = image


====
